---- MODULE Spec2Model ----
(***************************************************************************)
(* A model of the data-generation harness (data_generation.py) and of the  *)
(* BaseRobot class (robots/robot.py) of online_adaptive_cbf.               *)
(*                                                                         *)
(* Units.  Reals are scaled to integers:                                   *)
(*   - times of single_agent_simulation are in hundredths of a second      *)
(*     (dt = 0.05 s is 5), speeds in hundredths of m/s (0.1 m/s is 10);    *)
(*   - the five swept parameters are in ten-thousandths;                   *)
(*   - the robot lives on the integer lattice: one cell is one metre, one  *)
(*     tick is the robot's dt, headings are quarter turns, and a region    *)
(*     (a shapely geometry) is the set of lattice points it contains.      *)
(* Floating-point rounding of the repeated additions is not modelled.      *)
(***************************************************************************)
EXTENDS Integers, Sequences, FiniteSets, TLC

VARIABLES
    sim,      \* the frame of one call of single_agent_simulation
    setup,    \* history: what lines 28-59 of that frame did
    calls,    \* history: the outcome of every control_step call of that frame
    gen,      \* the state of generate_data / concatenate_csv_files
    robot,    \* the fields of one BaseRobot
    trace     \* history: the robot's calls: their number, the last one and
              \* one remembered call of detect_unknown_obs

vars == <<sim, setup, calls, gen, robot, trace>>

(***************************************************************************)
(* Bounds of the model.                                                    *)
(***************************************************************************)
MaxSimTime == 16      \* largest max_sim_time tried for a single run (0.16 s)
MaxSamples == 2       \* largest samples_per_dimension of a sweep
MaxBatch == 3         \* largest batch_size of a sweep
MaxFaultIndex == 4    \* a misbehaving run is among the first ones, or the last
MaxOps == 3           \* number of method calls made on one robot
MaxSpeed == 3         \* largest speed of the robot, in cells per tick

(***************************************************************************)
(* Small helpers.                                                          *)
(***************************************************************************)
Abs(n) == IF n < 0 THEN -n ELSE n

Min(a, b) == IF a < b THEN a ELSE b
Max(a, b) == IF a > b THEN a ELSE b

Range(s) == {s[k] : k \in DOMAIN s}

(***************************************************************************)
(* data_generation.py: single_agent_simulation                             *)
(***************************************************************************)
dt == 5                              \* dt = 0.05
default_deadlock_threshold == 10     \* deadlock_threshold=0.1
default_max_sim_time == 500          \* max_sim_time=5

\* np.linspace(start, stop, n)[k]
Linspace(start, stop, n, k) ==
    IF n = 1 THEN start ELSE start + (k * (stop - start)) \div (n - 1)

distance_range(n, k) == Linspace(3500, 30000, n, k)
velocity_range(n, k) == Linspace(100, 10000, n, k)
theta_range(n, k)    == Linspace(10, 15708, n, k)
gamma1_range(n, k)   == Linspace(50, 9900, n, k)
gamma2_range(n, k)   == Linspace(50, 9900, n, k)

\* What one call tracking_controller.control_step() can do: return ret after
\* setting tracking_controller.safety_loss (a one-element vector) and
\* robot.X[3], raise CollisionError, or raise anything else.
LossValues  == {-1, 1, 2}
SpeedValues == {-20, -5, 10}
RetValues   == {-1, 0}

StepOk(ret, loss, speed) ==
    [kind |-> "ok", ret |-> ret, safety_loss |-> <<loss>>, speed |-> speed]
StepCollision == [kind |-> "CollisionError", ret |-> 0, safety_loss |-> <<0>>, speed |-> 0]
StepError     == [kind |-> "Exception", ret |-> 0, safety_loss |-> <<0>>, speed |-> 0]

ControlStepOutcomes ==
    {StepOk(r, l, s) : r \in RetValues, l \in LossValues, s \in SpeedValues}
        \cup {StepCollision, StepError}

SetupOutcomes == {"ok", "CollisionError", "Exception"}

NoRow == <<>>

\* The frame at entry: the arguments are bound, no local is.
SimEntry(params, deadlock_threshold, max_sim_time) ==
    [pc                 |-> "setup",
     params             |-> params,
     deadlock_threshold |-> deadlock_threshold,
     max_sim_time       |-> max_sim_time,
     fig                |-> "none",
     bound              |-> FALSE,     \* lines 62-65 have run
     unexpected_beh     |-> 0,
     deadlock_time      |-> 0,
     sim_time           |-> 0,
     safety_loss        |-> 0,
     iter               |-> 0,         \* iterations of the for loop finished
     result             |-> NoRow,
     exc                |-> "none"]

\* The tuple of a return statement (lines 84, 87, 91).
Row(f, collision_free) ==
    <<f.params[1], f.params[2], f.params[3], f.params[4], f.params[5],
      collision_free, f.safety_loss, f.deadlock_time, f.sim_time>>

Return(f, collision_free) ==
    [f EXCEPT !.pc = "returned", !.result = Row(f, collision_free)]

Raise(f, e) == [f EXCEPT !.pc = "raised", !.exc = e]

\* int(max_sim_time / dt)
StepBudget(f) == f.max_sim_time \div dt

\* Lines 28-65 when nothing raises: the figure and the controller are made,
\* then the four metric variables are initialised.
SetupDone(f) ==
    [f EXCEPT !.pc = "loop", !.fig = "open", !.bound = TRUE,
              !.unexpected_beh = 0, !.deadlock_time = 0,
              !.sim_time = 0, !.safety_loss = 0]

\* Lines 89-91: the outer handler closes the figure and returns the metric
\* variables, which are unbound when the exception came from lines 43-59.
OuterExcept(f) ==
    LET g == [f EXCEPT !.fig = "closed"]
    IN  IF g.bound THEN Return(g, FALSE) ELSE Raise(g, "UnboundLocalError")

\* Lines 28-59 raise: CollisionError goes to the outer handler, anything else
\* leaves the function.  The figure exists from line 41 on.
SetupRaises(f, e) ==
    LET g == [f EXCEPT !.fig = "open"]
    IN  IF e = "CollisionError" THEN OuterExcept(g) ELSE Raise(g, e)

\* (mutant) np.abs dropped from the comparison of line 74.
DeadlockUpdate_Signed(f, speed) ==
    IF speed < f.deadlock_threshold
    THEN [f EXCEPT !.deadlock_time = @ + dt]
    ELSE f

\* Lines 74-75.
DeadlockUpdate(f, speed) ==
    IF Abs(speed) < f.deadlock_threshold
    THEN [f EXCEPT !.deadlock_time = @ + dt]
    ELSE f

\* (mutant) the comparison of line 78 dropped.
SafetyLossUpdate_Overwrite(f, tc_safety_loss) ==
    [f EXCEPT !.safety_loss = tc_safety_loss[1]]

\* Lines 78-79.
SafetyLossUpdate(f, tc_safety_loss) ==
    IF tc_safety_loss[1] > f.safety_loss
    THEN [f EXCEPT !.safety_loss = tc_safety_loss[1]]
    ELSE f

\* (mutant) line 71 dropped.
StepReturned_NoSimTime(f, o) ==
    LET a == [f EXCEPT !.unexpected_beh = @ + o.ret]
        b == DeadlockUpdate(a, o.speed)
        c == SafetyLossUpdate(b, o.safety_loss)
    IN  [c EXCEPT !.iter = @ + 1]

\* Lines 69-79: control_step returned.
StepReturned(f, o) ==
    LET a == [f EXCEPT !.unexpected_beh = @ + o.ret, !.sim_time = @ + dt]
        b == DeadlockUpdate(a, o.speed)
        c == SafetyLossUpdate(b, o.safety_loss)
    IN  [c EXCEPT !.iter = @ + 1]

\* (mutant) the handler counts the step that collided.
InnerExcept_CountsStep(f) ==
    Return([f EXCEPT !.fig = "closed", !.sim_time = @ + dt], FALSE)

\* Lines 82-84: control_step raised CollisionError.
InnerExcept(f) == Return([f EXCEPT !.fig = "closed"], FALSE)

\* (mutant) the handler of line 82 goes on with the next iteration.
LoopBody_SwallowCollision(f, o) ==
    CASE o.kind = "ok"             -> StepReturned(f, o)
      [] o.kind = "CollisionError" -> [f EXCEPT !.iter = @ + 1]
      [] OTHER                     -> Raise(f, o.kind)

\* One iteration of the loop of line 67, control_step doing o.
LoopBody(f, o) ==
    CASE o.kind = "ok"             -> StepReturned(f, o)
      [] o.kind = "CollisionError" -> InnerExcept(f)
      [] OTHER                     -> Raise(f, o.kind)

\* Lines 86-87: the loop is exhausted.
LoopExit(f) == Return([f EXCEPT !.fig = "closed"], TRUE)

\* The whole call, control_step doing script[k] in iteration k (from 1).
RECURSIVE RunLoop(_, _)
RunLoop(f, script) ==
    IF f.pc # "loop" THEN f
    ELSE IF f.iter >= StepBudget(f) THEN LoopExit(f)
    ELSE RunLoop(LoopBody(f, script[f.iter + 1]), script)

single_agent_simulation(params, deadlock_threshold, max_sim_time, setup_does, script) ==
    LET f == SimEntry(params, deadlock_threshold, max_sim_time)
    IN  IF setup_does = "ok" THEN RunLoop(SetupDone(f), script)
        ELSE SetupRaises(f, setup_does)

(***************************************************************************)
(* data_generation.py: worker, generate_data, concatenate_csv_files and    *)
(* the __main__ block.  A CSV file is its header and its rows; to_csv and  *)
(* read_csv are taken to keep the values of the fields.                    *)
(***************************************************************************)
Pow5(n) == n * n * n * n * n

\* Lines 106-110: element k (from 0) of parameter_space; g2 varies fastest.
ParamAt(n, k) ==
    <<distance_range(n, (k \div (n * n * n * n)) % n),
      velocity_range(n, (k \div (n * n * n)) % n),
      theta_range(n, (k \div (n * n)) % n),
      gamma1_range(n, (k \div n) % n),
      gamma2_range(n, k % n)>>

parameter_space(n) == [k \in 1..Pow5(n) |-> ParamAt(n, k - 1)]

\* (mutant) the remainder batch forgotten.
TotalBatches_Floor(len, batch_size) == len \div batch_size

\* Lines 112 and 148.
TotalBatches(len, batch_size) ==
    len \div batch_size + (IF len % batch_size # 0 THEN 1 ELSE 0)

\* Python's list[a:b].
Slice(list, a, b) ==
    LET hi == IF b < Len(list) THEN b ELSE Len(list)
    IN  IF a >= hi THEN <<>> ELSE SubSeq(list, a + 1, hi)

Columns == <<"Distance", "Velocity", "Theta", "Gamma1", "Gamma2", "No Collision",
             "Safety Loss", "Deadlock Time", "Simulation Time">>

\* What the controller of the run with the given parameters does: every
\* control step of a run is uneventful, except in the one run the fault
\* names, where set-up or the second control step raises.
NominalStep == StepOk(0, 1, 10)

FaultKinds == {"CollisionInStep", "CollisionInSetup", "ExceptionInStep"}
NoFault == [params |-> <<>>, kind |-> "none"]

SetupOf(fault, params) ==
    IF fault.params = params /\ fault.kind = "CollisionInSetup"
    THEN "CollisionError" ELSE "ok"

ScriptOf(fault, params) ==
    [k \in 1..(default_max_sim_time \div dt) |->
        IF fault.params = params /\ k = 2
        THEN CASE fault.kind = "CollisionInStep" -> StepCollision
               [] fault.kind = "ExceptionInStep" -> StepError
               [] OTHER -> NominalStep
        ELSE NominalStep]

\* Lines 93-97: the finished frame of the call worker makes.
worker(fault, params) ==
    single_agent_simulation(params, default_deadlock_threshold,
                            default_max_sim_time,
                            SetupOf(fault, params), ScriptOf(fault, params))

GenEntry(n, batch_size, fault) ==
    [pc                    |-> "main",
     samples_per_dimension |-> n,
     batch_size            |-> batch_size,
     fault                 |-> fault,
     main_total_batches    |-> 0,        \* line 148
     total_batches         |-> 0,        \* line 112
     batch_index           |-> 0,
     batch_parameters      |-> <<>>,
     results               |-> <<>>,
     pools                 |-> <<>>,     \* every Pool made, with its state
     files                 |-> <<>>,     \* batch number -> CSV file
     output                |-> <<>>,     \* the concatenated CSV file, if any
     exc                   |-> "none"]

\* Lines 143-150 and 100-112: __main__ computes its total_batches and calls
\* generate_data, which builds parameter_space and computes its own.
GenBegin(g) ==
    [g EXCEPT !.pc = "for",
              !.main_total_batches =
                  TotalBatches(Pow5(g.samples_per_dimension), g.batch_size),
              !.total_batches =
                  TotalBatches(Len(parameter_space(g.samples_per_dimension)),
                               g.batch_size),
              !.batch_index = 0]

\* Lines 114-118: the next batch is cut out and its pool is made.
BatchBegin(g) ==
    [g EXCEPT !.pc = "imap",
              !.batch_parameters =
                  Slice(parameter_space(g.samples_per_dimension),
                        g.batch_index * g.batch_size,
                        (g.batch_index + 1) * g.batch_size),
              !.pools = Append(@, "open"),
              !.results = <<>>]

\* Lines 119-120: imap hands over the next result in input order; a worker
\* that raised makes the iteration raise in generate_data.
Collect(g) ==
    LET f == worker(g.fault, g.batch_parameters[Len(g.results) + 1])
    IN  IF f.pc = "returned"
        THEN [g EXCEPT !.results = Append(@, f.result)]
        ELSE [g EXCEPT !.pc = "raised", !.exc = f.exc]

\* Lines 121-122.
PoolCloseJoin(g) ==
    [g EXCEPT !.pc = "to_csv", !.pools[Len(g.pools)] = "joined"]

\* Lines 124-125, and the loop goes on.
WriteBatch(g) ==
    LET name == g.batch_index + 1
    IN  [g EXCEPT !.pc = "for",
                  !.files = [b \in DOMAIN g.files \cup {name} |->
                                IF b = name
                                THEN [columns |-> Columns, rows |-> g.results]
                                ELSE g.files[b]],
                  !.batch_index = @ + 1]

\* Lines 130-135: the rows of the batch files 1..total_batches, in order.
RECURSIVE ConcatRows(_, _)
ConcatRows(files, upto) ==
    IF upto = 0 THEN <<>> ELSE ConcatRows(files, upto - 1) \o files[upto].rows

\* Lines 127-137, called at line 151 with the total_batches of __main__.
concatenate_csv_files(g, total_batches) ==
    IF \E b \in 1..total_batches : b \notin DOMAIN g.files
    THEN [g EXCEPT !.pc = "raised", !.exc = "FileNotFoundError"]
    ELSE [g EXCEPT !.pc = "done",
                   !.output = [columns |-> Columns,
                               rows |-> ConcatRows(g.files, total_batches)]]

(***************************************************************************)
(* robots/robot.py: BaseRobot.                                             *)
(*                                                                         *)
(* The state X is <<x, y, theta, v>> and the control U is <<a, omega>>;    *)
(* theta counts quarter turns, so that cos and sin are -1, 0 or 1 and the  *)
(* robot stays on the lattice.  The physical parameters are given in       *)
(* lattice units: one cell, one tick (self.dt), one quarter turn.          *)
(***************************************************************************)
tick == 1              \* self.dt
robot_radius == 25     \* self.robot_radius = 0.25, in hundredths of a cell
max_decel == 1         \* self.max_decel: the speed lost per tick of braking
                       \* is the lattice's unit of speed
max_ang_decel == 1     \* self.max_ang_decel: the angular rate lost per tick
                       \* is the lattice's unit of angular rate
cam_range == 3         \* self.cam_range = 3.0
fov_half_cos == 819    \* cos(fov_angle / 2) = cos(35 deg), in thousandths
fov_half_sin == 574    \* sin(fov_angle / 2) = sin(35 deg), in thousandths
init_radius == 100     \* buffer(1) of line 70, in hundredths of a cell
obs_margin == 5        \* obs_margin=0.05, in hundredths of a cell

Cos4(theta) == CASE theta % 4 = 0 -> 1 [] theta % 4 = 2 -> -1 [] OTHER -> 0
Sin4(theta) == CASE theta % 4 = 1 -> 1 [] theta % 4 = 3 -> -1 [] OTHER -> 0
Sign(n) == IF n > 0 THEN 1 ELSE IF n < 0 THEN -1 ELSE 0

Dist2(p, q) == (p[1] - q[1]) * (p[1] - q[1]) + (p[2] - q[2]) * (p[2] - q[2])
Cross(u, w) == u[1] * w[2] - u[2] * w[1]

\* Python's None and a value that is not None.
None == [some |-> FALSE, val |-> <<>>]
Some(v) == [some |-> TRUE, val |-> v]

\* geometry.buffer(radius): the lattice points within radius (hundredths of
\* a cell) of a lattice point of the geometry.
Buffer(cells, radius) ==
    LET k == (radius + 99) \div 100
    IN  UNION {{p \in ((q[1] - k)..(q[1] + k)) \X ((q[2] - k)..(q[2] + k)) :
                  10000 * Dist2(p, q) <= radius * radius} : q \in cells}

\* The lattice points of the segment between two lattice points on one
\* lattice line.
SegmentCells(p, q) ==
    {c \in (Min(p[1], q[1])..Max(p[1], q[1])) \X
           (Min(p[2], q[2])..Max(p[2], q[2])) : TRUE}

\* LineString(points): the lattice points of its segments.
LineCells(points) ==
    UNION {SegmentCells(points[k], points[k + 1]) : k \in 1..(Len(points) - 1)}

\* Lines 278-290: the two far corners of the field of view, in thousandths
\* of a cell.
calculate_fov_points(X) ==
    LET c == Cos4(X[3])
        sn == Sin4(X[3])
        left == <<1000 * X[1] + cam_range * (c * fov_half_cos + sn * fov_half_sin),
                  1000 * X[2] + cam_range * (sn * fov_half_cos - c * fov_half_sin)>>
        right == <<1000 * X[1] + cam_range * (c * fov_half_cos - sn * fov_half_sin),
                   1000 * X[2] + cam_range * (sn * fov_half_cos + c * fov_half_sin)>>
    IN  <<left, right>>

\* Polygon([a, b, c]), corners in thousandths: the lattice points on or
\* inside the triangle.
TriangleCells(a, b, c) ==
    LET lo1 == Min(a[1], Min(b[1], c[1])) \div 1000 - 1
        hi1 == Max(a[1], Max(b[1], c[1])) \div 1000 + 1
        lo2 == Min(a[2], Min(b[2], c[2])) \div 1000 - 1
        hi2 == Max(a[2], Max(b[2], c[2])) \div 1000 + 1
        Side(u, w, p) == Cross(<<w[1] - u[1], w[2] - u[2]>>,
                               <<1000 * p[1] - u[1], 1000 * p[2] - u[2]>>)
    IN  {p \in (lo1..hi1) \X (lo2..hi2) :
            \/ Side(a, b, p) >= 0 /\ Side(b, c, p) >= 0 /\ Side(c, a, p) >= 0
            \/ Side(a, b, p) <= 0 /\ Side(b, c, p) <= 0 /\ Side(c, a, p) <= 0}

\* Lines 26-91: the robot after construction.  With data_generation the
\* attributes of lines 76-91 are never created.
OptionalAttrs == {"unsafe_points", "detected_obs", "detected_points",
                  "safety_area", "sensing_footprints"}

RobotNew(X0, data_generation) ==
    [data_generation    |-> data_generation,
     X                  |-> X0,
     U                  |-> <<0, 0>>,
     attrs              |-> IF data_generation THEN {} ELSE OptionalAttrs,
     unsafe_points      |-> <<>>,
     detected_obs       |-> None,
     detected_points    |-> <<>>,
     safety_area        |-> {},
     sensing_footprints |->
         IF data_generation THEN {}
         ELSE {} \cup Buffer({<<X0[1], X0[2]>>}, init_radius)]

\* The outcome of one method call: the robot afterwards, what the call
\* returned and the exception it raised, if any.
Returned(r, v) == [robot |-> r, ret |-> v, exc |-> "none"]
Raised(r, e) == [robot |-> r, ret |-> None, exc |-> e]

\* DynamicUnicycle2D.step: X + dt * (f(X) + g(X) U), the heading wrapped.
DynamicsStep(X, U) ==
    <<X[1] + tick * X[4] * Cos4(X[3]),
      X[2] + tick * X[4] * Sin4(X[3]),
      (X[3] + tick * U[2]) % 4,
      X[4] + tick * U[1]>>

\* Lines 106-110.
step(r, U) ==
    LET X1 == DynamicsStep(r.X, U)
    IN  Returned([r EXCEPT !.U = U, !.X = X1], Some(X1))

\* (mutant) the footprint is replaced by the current field of view.
update_sensing_footprints_Replace(r) ==
    IF "sensing_footprints" \notin r.attrs THEN Raised(r, "AttributeError")
    ELSE LET fov == calculate_fov_points(r.X)
             new_area == TriangleCells(<<1000 * r.X[1], 1000 * r.X[2]>>,
                                       fov[1], fov[2])
         IN  Returned([r EXCEPT !.sensing_footprints = new_area], None)

\* Lines 155-160.
update_sensing_footprints(r) ==
    IF "sensing_footprints" \notin r.attrs THEN Raised(r, "AttributeError")
    ELSE LET fov == calculate_fov_points(r.X)
             new_area == TriangleCells(<<1000 * r.X[1], 1000 * r.X[2]>>,
                                       fov[1], fov[2])
         IN  Returned([r EXCEPT !.sensing_footprints = @ \cup new_area], None)

\* (mutant) lines 183-184 dropped: the decayed rate is not clamped.
RECURSIVE BrakingLoop_NoClamp(_, _, _, _, _)
BrakingLoop_NoClamp(v, omega, t, theta, path) ==
    IF ~(t * max_decel <= v) THEN path
    ELSE LET v_current == Max(v - max_decel * t, 0)
             omega_current == omega - Sign(omega) * max_ang_decel * t
             theta1 == theta + omega_current * tick
             last == path.points[Len(path.points)]
             next == <<last[1] + v_current * Cos4(theta1) * tick,
                       last[2] + v_current * Sin4(theta1) * tick>>
         IN  IF v_current = 0 THEN path
             ELSE BrakingLoop_NoClamp(v, omega, t + tick, theta1,
                      [points |-> Append(path.points, next),
                       omegas |-> Append(path.omegas, omega_current)])

\* Lines 176-189: the loop, from time t on; path holds the trajectory points
\* and the angular rates used so far.
RECURSIVE BrakingLoop(_, _, _, _, _)
BrakingLoop(v, omega, t, theta, path) ==
    IF ~(t * max_decel <= v) THEN path
    ELSE LET v_current == Max(v - max_decel * t, 0)
             raw == omega - Sign(omega) * max_ang_decel * t
             omega_current == IF Sign(raw) # Sign(omega) THEN 0 ELSE raw
             theta1 == theta + omega_current * tick
             last == path.points[Len(path.points)]
             next == <<last[1] + v_current * Cos4(theta1) * tick,
                       last[2] + v_current * Sin4(theta1) * tick>>
         IN  IF v_current = 0 THEN path
             ELSE BrakingLoop(v, omega, t + tick, theta1,
                              [points |-> Append(path.points, next),
                               omegas |-> Append(path.omegas, omega_current)])

BrakingPath(X, omega) ==
    BrakingLoop(X[4], omega, 0, X[3],
                [points |-> <<<<X[1], X[2]>>>>, omegas |-> <<>>])

\* Lines 198-202: the straight braking segment, buffered: the lattice points
\* at most robot_radius beyond its far end v^2 / (2 max_decel).
StraightArea(X) ==
    {<<X[1] + k * Cos4(X[3]), X[2] + k * Sin4(X[3])>> :
        k \in {j \in 0..(X[4] * X[4]) :
                 200 * max_decel * j <= 100 * X[4] * X[4]
                                        + 2 * max_decel * robot_radius}}

\* Lines 163-202.
update_safety_area(r) ==
    LET omega == r.U[2]
        points == BrakingPath(r.X, omega).points
        area == IF omega # 0
                THEN IF Len(points) >= 2
                     THEN Buffer(LineCells(points), robot_radius)
                     ELSE Buffer({<<r.X[1], r.X[2]>>}, robot_radius)
                ELSE StraightArea(r.X)
    IN  Returned([r EXCEPT !.safety_area = area,
                           !.attrs = @ \cup {"safety_area"}], None)

\* shapely's a.contains(b): false for an empty b.
Contains(a, b) == b # {} /\ b \subseteq a

\* Lines 204-208.
is_beyond_sensing_footprints(r) ==
    IF "sensing_footprints" \notin r.attrs \/ "safety_area" \notin r.attrs
    THEN Raised(r, "AttributeError")
    ELSE LET flag == ~Contains(r.sensing_footprints, r.safety_area)
         IN  IF flag
             THEN IF "unsafe_points" \notin r.attrs
                  THEN Raised(r, "AttributeError")
                  ELSE Returned([r EXCEPT !.unsafe_points =
                                     Append(@, <<r.X[1], r.X[2]>>)], Some(TRUE))
             ELSE Returned(r, Some(FALSE))

\* The elements of a finite set of lattice points as a list, in a fixed
\* order (the order of the coordinates of a ring is a function of the ring).
RECURSIVE SortedPoints(_)
SortedPoints(S) ==
    IF S = {} THEN <<>>
    ELSE LET m == CHOOSE p \in S : \A q \in S :
                      p[1] < q[1] \/ (p[1] = q[1] /\ p[2] <= q[2])
         IN  <<m>> \o SortedPoints(S \ {m})

\* area.exterior.coords: the lattice points of the area next to a lattice
\* point outside it.
ExteriorCoords(area) ==
    SortedPoints({p \in area :
        \E n \in {<<p[1] + 1, p[2]>>, <<p[1] - 1, p[2]>>,
                  <<p[1], p[2] + 1>>, <<p[1], p[2] - 1>>} : n \notin area})

\* Line 239: Point(obs[0], obs[1]).buffer(obs[2] - obs_margin).
ObsCircle(obs) == Buffer({<<obs[1], obs[2]>>}, 100 * obs[3] - obs_margin)

\* Line 260: LineString([a, p]).crosses(circle) for a point p of the circle:
\* a lies outside the circle and the way from p towards a leads through the
\* interior of the hull of the circle's lattice points, which is a square.
Crosses(a, p, circle) ==
    LET x0 == CHOOSE x \in {c[1] : c \in circle} : \A c \in circle : x <= c[1]
        x1 == CHOOSE x \in {c[1] : c \in circle} : \A c \in circle : x >= c[1]
        y0 == CHOOSE y \in {c[2] : c \in circle} : \A c \in circle : y <= c[2]
        y1 == CHOOSE y \in {c[2] : c \in circle} : \A c \in circle : y >= c[2]
    IN  /\ a \notin circle
        /\ p[1] = x0 => a[1] - p[1] > 0
        /\ p[1] = x1 => a[1] - p[1] < 0
        /\ p[2] = y0 => a[2] - p[2] > 0
        /\ p[2] = y1 => a[2] - p[2] < 0

\* Lines 239-261 for one obstacle: the front-side points of the part of the
\* obstacle inside the footprint.
FrontPoints(footprints, X, obs) ==
    LET obs_circle == ObsCircle(obs)
        intersected_area == footprints \cap obs_circle
    IN  SelectSeq(ExteriorCoords(intersected_area),
                  LAMBDA p : ~Crosses(<<X[1], X[2]>>, p, obs_circle))

\* Line 237: sorted(unknown_obs, key=distance to the robot), a stable sort.
RECURSIVE SortedByDistance(_, _)
SortedByDistance(list, X) ==
    IF list = <<>> THEN <<>>
    ELSE LET o == list[Len(list)]
             front == SortedByDistance(SubSeq(list, 1, Len(list) - 1), X)
             pos == <<X[1], X[2]>>
             k == Cardinality({j \in DOMAIN front :
                     Dist2(<<front[j][1], front[j][2]>>, pos)
                         <= Dist2(<<o[1], o[2]>>, pos)})
         IN  SubSeq(front, 1, k) \o <<o>> \o SubSeq(front, k + 1, Len(front))

\* (mutant) every obstacle adds its points.
RECURSIVE ScanObstacles_All(_, _, _)
ScanObstacles_All(footprints, X, sorted) ==
    IF sorted = <<>> THEN <<>>
    ELSE FrontPoints(footprints, X, Head(sorted))
             \o ScanObstacles_All(footprints, X, Tail(sorted))

\* Lines 238-264: the points of the first obstacle that yields any.
RECURSIVE ScanObstacles(_, _, _)
ScanObstacles(footprints, X, sorted) ==
    IF sorted = <<>> THEN <<>>
    ELSE LET points == FrontPoints(footprints, X, Head(sorted))
         IN  IF Len(points) > 0 THEN points
             ELSE ScanObstacles(footprints, X, Tail(sorted))

\* Lines 215-219: the class of the angle between the heading and the way to
\* a point, normalised to [-pi, pi): 0 is -pi, 2 is -pi/2, 4 is 0, 6 is pi/2
\* and the odd classes are the open quadrants between.  The way to the
\* robot's own position has arctan2(0, 0) = 0, so its angle is -theta.
AngleClass(X, p) ==
    LET dx == p[1] - X[1]
        dy == p[2] - X[2]
        f == Cos4(X[3]) * dx + Sin4(X[3]) * dy
        l == Cos4(X[3]) * dy - Sin4(X[3]) * dx
    IN  IF dx = 0 /\ dy = 0 THEN 2 * (((2 - X[3]) % 4) - 2) + 4
        ELSE IF l = 0 THEN (IF f < 0 THEN 0 ELSE 4)
        ELSE IF l < 0 THEN (IF f < 0 THEN 1 ELSE IF f = 0 THEN 2 ELSE 3)
        ELSE (IF f > 0 THEN 5 ELSE IF f = 0 THEN 6 ELSE 7)

AngleLess(X, p, q) ==
    \/ AngleClass(X, p) < AngleClass(X, q)
    \/ /\ AngleClass(X, p) = AngleClass(X, q)
       /\ Cross(<<p[1] - X[1], p[2] - X[2]>>, <<q[1] - X[1], q[2] - X[2]>>) > 0

\* Lines 210-228: np.argmin and np.argmax take the first extreme element.
find_extreme_points(X, detected_points) ==
    LET idx == DOMAIN detected_points
        leftmost_index ==
            CHOOSE i \in idx :
                /\ \A j \in idx : ~AngleLess(X, detected_points[j], detected_points[i])
                /\ \A j \in idx : j < i =>
                       AngleLess(X, detected_points[i], detected_points[j])
        rightmost_index ==
            CHOOSE i \in idx :
                /\ \A j \in idx : ~AngleLess(X, detected_points[i], detected_points[j])
                /\ \A j \in idx : j < i =>
                       AngleLess(X, detected_points[j], detected_points[i])
    IN  <<detected_points[leftmost_index], detected_points[rightmost_index]>>

\* Lines 269-275: the estimate <<2 * center x, 2 * center y, (2 * radius)^2>>.
Estimate(X, detected_points) ==
    LET ext == find_extreme_points(X, detected_points)
    IN  <<ext[1][1] + ext[2][1], ext[1][2] + ext[2][2], Dist2(ext[1], ext[2])>>

\* (mutant) line 234 dropped: the points of earlier calls stay in the list.
detect_unknown_obs_NoReset(r, unknown_obs) ==
    IF ~unknown_obs.some THEN Returned(r, Some(<<>>))
    ELSE IF unknown_obs.val # <<>> /\ "sensing_footprints" \notin r.attrs
         THEN Raised(r, "AttributeError")
    ELSE LET sorted == SortedByDistance(unknown_obs.val, r.X)
             points == r.detected_points
                           \o ScanObstacles(r.sensing_footprints, r.X, sorted)
             r2 == [r EXCEPT !.detected_points = points,
                             !.attrs = @ \cup {"detected_points", "detected_obs"}]
         IN  IF Len(points) = 0
             THEN Returned([r2 EXCEPT !.detected_obs = None], Some(<<>>))
             ELSE Returned([r2 EXCEPT !.detected_obs = Some(Estimate(r.X, points))],
                           Some(Estimate(r.X, points)))

\* Lines 230-276.  unknown_obs is None or Some(list of <<x, y, radius>>).
detect_unknown_obs(r, unknown_obs) ==
    IF ~unknown_obs.some THEN Returned(r, Some(<<>>))
    ELSE LET r1 == [r EXCEPT !.detected_points = <<>>,
                             !.attrs = @ \cup {"detected_points"}]
         IN  IF unknown_obs.val # <<>> /\ "sensing_footprints" \notin r.attrs
             THEN Raised(r1, "AttributeError")
             ELSE LET sorted == SortedByDistance(unknown_obs.val, r.X)
                      points == ScanObstacles(r.sensing_footprints, r.X, sorted)
                      r2 == [r1 EXCEPT !.detected_points = points,
                                       !.attrs = @ \cup {"detected_obs"}]
                  IN  IF Len(points) = 0
                      THEN Returned([r2 EXCEPT !.detected_obs = None], Some(<<>>))
                      ELSE Returned([r2 EXCEPT !.detected_obs =
                                         Some(Estimate(r.X, points))],
                                    Some(Estimate(r.X, points)))

(***************************************************************************)
(* Idle values of the parts a specification does not exercise.             *)
(***************************************************************************)
SimIdle == SimEntry(<<0, 0, 0, 0, 0>>, 0, 0)
GenIdle == GenEntry(1, 1, NoFault)
RobotIdle == RobotNew(<<0, 0, 0, 0>>, TRUE)
NoCall == [op |-> "none", X |-> <<0, 0, 0, 0>>, footprints |-> {},
           arg |-> None, ret |-> None, exc |-> "none"]
TraceIdle == [n |-> 0, last |-> NoCall, memo |-> NoCall, memo_at |-> 0]

(***************************************************************************)
(* SpecRun: one call of single_agent_simulation, one iteration per step.   *)
(***************************************************************************)
RunParams == {<<distance_range(2, 0), velocity_range(2, 0), theta_range(2, 0),
                gamma1_range(2, 0), gamma2_range(2, 1)>>,
              <<distance_range(2, 1), velocity_range(2, 1), theta_range(2, 1),
                gamma1_range(2, 1), gamma2_range(2, 0)>>}

RunThresholds == {default_deadlock_threshold, 2 * default_deadlock_threshold}

RunInit ==
    /\ \E p \in RunParams, th \in RunThresholds, m \in 0..MaxSimTime :
          sim = SimEntry(p, th, m)
    /\ setup = "pending"
    /\ calls = <<>>
    /\ gen = GenIdle
    /\ robot = RobotIdle
    /\ trace = TraceIdle

RunSetup ==
    /\ sim.pc = "setup"
    /\ \E s \in SetupOutcomes :
          /\ sim' = IF s = "ok" THEN SetupDone(sim) ELSE SetupRaises(sim, s)
          /\ setup' = s
    /\ UNCHANGED <<calls, gen, robot, trace>>

RunStep ==
    /\ sim.pc = "loop"
    /\ sim.iter < StepBudget(sim)
    /\ \E o \in ControlStepOutcomes :
          /\ sim' = LoopBody(sim, o)
          /\ calls' = Append(calls, o)
    /\ UNCHANGED <<setup, gen, robot, trace>>

RunExit ==
    /\ sim.pc = "loop"
    /\ sim.iter >= StepBudget(sim)
    /\ sim' = LoopExit(sim)
    /\ UNCHANGED <<setup, calls, gen, robot, trace>>

RunNext == RunSetup \/ RunStep \/ RunExit

SpecRun == RunInit /\ [][RunNext]_vars

(***************************************************************************)
(* SpecGen: the __main__ block: generate_data, then concatenate_csv_files. *)
(***************************************************************************)
FaultPositions(n) ==
    {k \in 0..(Pow5(n) - 1) : k < MaxFaultIndex \/ k = Pow5(n) - 1}

Faults(n) ==
    {NoFault} \cup
    {[params |-> ParamAt(n, k), kind |-> kd] :
        k \in FaultPositions(n), kd \in FaultKinds}

GenInit ==
    /\ \E n \in 1..MaxSamples, b \in 1..MaxBatch :
          \E fl \in Faults(n) : gen = GenEntry(n, b, fl)
    /\ sim = SimIdle
    /\ setup = "pending"
    /\ calls = <<>>
    /\ robot = RobotIdle
    /\ trace = TraceIdle

GenStart ==
    /\ gen.pc = "main"
    /\ gen' = GenBegin(gen)
    /\ UNCHANGED <<sim, setup, calls, robot, trace>>

GenBatchBegin ==
    /\ gen.pc = "for"
    /\ gen.batch_index < gen.total_batches
    /\ gen' = BatchBegin(gen)
    /\ UNCHANGED <<sim, setup, calls, robot, trace>>

GenCollect ==
    /\ gen.pc = "imap"
    /\ Len(gen.results) < Len(gen.batch_parameters)
    /\ gen' = Collect(gen)
    /\ UNCHANGED <<sim, setup, calls, robot, trace>>

GenPoolCloseJoin ==
    /\ gen.pc = "imap"
    /\ Len(gen.results) >= Len(gen.batch_parameters)
    /\ gen' = PoolCloseJoin(gen)
    /\ UNCHANGED <<sim, setup, calls, robot, trace>>

GenWriteBatch ==
    /\ gen.pc = "to_csv"
    /\ gen' = WriteBatch(gen)
    /\ UNCHANGED <<sim, setup, calls, robot, trace>>

GenConcatenate ==
    /\ gen.pc = "for"
    /\ gen.batch_index >= gen.total_batches
    /\ gen' = concatenate_csv_files(gen, gen.main_total_batches)
    /\ UNCHANGED <<sim, setup, calls, robot, trace>>

GenNext ==
    \/ GenStart \/ GenBatchBegin \/ GenCollect
    \/ GenPoolCloseJoin \/ GenWriteBatch \/ GenConcatenate

SpecGen == GenInit /\ [][GenNext]_vars

(***************************************************************************)
(* SpecRobot: one BaseRobot and the calls a controller makes on it, in any *)
(* order.  The robot is kept inside a small world.                         *)
(***************************************************************************)
WorldX == 0..4
WorldY == 0..2
Accelerations == {-1, 0, 1}
TurnRates == {-2, -1, 0, 1, 2}

Obstacle1 == <<3, 1, 2>>
Obstacle2 == <<0, 2, 1>>
ObstacleArgs == {None, Some(<<>>), Some(<<Obstacle1>>),
                 Some(<<Obstacle1, Obstacle2>>)}

InitialStates == {<<0, 1, 0, v>> : v \in {0, 1, MaxSpeed}}

InWorld(X) ==
    /\ X[1] \in WorldX
    /\ X[2] \in WorldY
    /\ X[4] \in 0..MaxSpeed

Call(op, r, arg, out) ==
    [op |-> op, X |-> r.X, footprints |-> r.sensing_footprints,
     arg |-> arg, ret |-> out.ret, exc |-> out.exc]

RobotInit ==
    /\ \E X0 \in InitialStates, dg \in BOOLEAN : robot = RobotNew(X0, dg)
    /\ trace = TraceIdle
    /\ sim = SimIdle
    /\ setup = "pending"
    /\ calls = <<>>
    /\ gen = GenIdle

RobotStep ==
    /\ trace.n < MaxOps
    /\ \E a \in Accelerations, w \in TurnRates :
          LET out == step(robot, <<a, w>>)
          IN  /\ InWorld(out.robot.X)
              /\ robot' = out.robot
              /\ trace' = [trace EXCEPT !.n = @ + 1,
                              !.last = Call("step", robot, Some(<<a, w>>), out)]
    /\ UNCHANGED <<sim, setup, calls, gen>>

RobotUpdateSensingFootprints ==
    /\ trace.n < MaxOps
    /\ LET out == update_sensing_footprints(robot)
       IN  /\ robot' = out.robot
           /\ trace' = [trace EXCEPT !.n = @ + 1,
                           !.last = Call("update_sensing_footprints", robot, None, out)]
    /\ UNCHANGED <<sim, setup, calls, gen>>

RobotUpdateSafetyArea ==
    /\ trace.n < MaxOps
    /\ LET out == update_safety_area(robot)
       IN  /\ robot' = out.robot
           /\ trace' = [trace EXCEPT !.n = @ + 1,
                           !.last = Call("update_safety_area", robot, None, out)]
    /\ UNCHANGED <<sim, setup, calls, gen>>

RobotIsBeyondSensingFootprints ==
    /\ trace.n < MaxOps
    /\ LET out == is_beyond_sensing_footprints(robot)
       IN  /\ robot' = out.robot
           /\ trace' = [trace EXCEPT !.n = @ + 1,
                           !.last = Call("is_beyond_sensing_footprints", robot, None, out)]
    /\ UNCHANGED <<sim, setup, calls, gen>>

RobotDetectUnknownObs ==
    /\ trace.n < MaxOps
    /\ \E arg \in ObstacleArgs, remember \in BOOLEAN :
          LET out == detect_unknown_obs(robot, arg)
              call == Call("detect_unknown_obs", robot, arg, out)
          IN  /\ remember => trace.memo = NoCall
              /\ robot' = out.robot
              /\ trace' = [trace EXCEPT !.n = @ + 1, !.last = call,
                              !.memo = IF remember THEN call ELSE @,
                              !.memo_at = IF remember THEN trace.n + 1 ELSE @]
    /\ UNCHANGED <<sim, setup, calls, gen>>

RobotNext ==
    \/ RobotStep
    \/ RobotUpdateSensingFootprints
    \/ RobotUpdateSafetyArea
    \/ RobotIsBeyondSensingFootprints
    \/ RobotDetectUnknownObs

SpecRobot == RobotInit /\ [][RobotNext]_vars

(***************************************************************************)
(* Claims about generate_data and concatenate_csv_files, under SpecGen.    *)
(***************************************************************************)

\* The Cartesian product of the five grids.
Grid(n) ==
    {<<distance_range(n, a), velocity_range(n, b), theta_range(n, c),
       gamma1_range(n, d), gamma2_range(n, e)>> :
        a \in 0..(n - 1), b \in 0..(n - 1), c \in 0..(n - 1),
        d \in 0..(n - 1), e \in 0..(n - 1)}

ParamFields(row) == SubSeq(row, 1, 5)

\* Every (file, line) pair of the batch files.
BatchRows ==
    {bj \in (DOMAIN gen.files) \X (1..gen.batch_size) :
        bj[2] <= Len(gen.files[bj[1]].rows)}

GenerateReturned ==
    \/ gen.pc = "done"
    \/ gen.pc = "for" /\ gen.batch_index >= gen.total_batches

\* C1: total_batches is ceil(n^5 / batch_size) in generate_data and in
\* __main__; batch file b holds, in order, one row for each of the grid
\* points b*batch_size - batch_size .. b*batch_size - 1 of parameter_space
\* (cut at n^5), the row's five parameter fields being that point; once
\* generate_data has returned the files 1..total_batches hold n^5 rows whose
\* parameter fields are pairwise distinct and are exactly the grid, and the
\* concatenated file holds the same rows.
C1_SweepCompleteness ==
    LET n     == gen.samples_per_dimension
        bs    == gen.batch_size
        total == Pow5(n)
    IN  /\ gen.pc # "main" =>
              /\ gen.total_batches * bs >= total
              /\ (gen.total_batches - 1) * bs < total
              /\ gen.main_total_batches = gen.total_batches
        /\ \A b \in DOMAIN gen.files :
              LET lo == (b - 1) * bs
                  hi == Min(b * bs, total)
                  rows == gen.files[b].rows
              IN  /\ b \in 1..gen.total_batches
                  /\ Len(rows) = hi - lo
                  /\ Len(rows) >= 1
                  /\ \A j \in 1..Len(rows) :
                        /\ Len(rows[j]) = 9
                        /\ ParamFields(rows[j]) = parameter_space(n)[lo + j]
        /\ GenerateReturned =>
              /\ DOMAIN gen.files = 1..gen.total_batches
              /\ Cardinality(BatchRows) = total
              /\ \A x, y \in BatchRows :
                    ParamFields(gen.files[x[1]].rows[x[2]]) =
                    ParamFields(gen.files[y[1]].rows[y[2]]) => x = y
              /\ {ParamFields(gen.files[x[1]].rows[x[2]]) : x \in BatchRows}
                    = Grid(n)
        /\ gen.pc = "done" =>
              /\ Len(gen.output.rows) = total
              /\ \A k \in 1..total :
                    ParamFields(gen.output.rows[k]) = parameter_space(n)[k]
              /\ \A k, l \in 1..total :
                    ParamFields(gen.output.rows[k]) =
                    ParamFields(gen.output.rows[l]) => k = l

\* C1 witness: a finished sweep whose last batch is a partial one.
C1_Witness ==
    /\ gen.pc = "done"
    /\ gen.samples_per_dimension = 2
    /\ gen.batch_size = 3
    /\ gen.total_batches = 11
    /\ Len(gen.files[11].rows) = 2
    /\ Len(gen.output.rows) = 32

\* C2: when one run raises an exception other than CollisionError, the
\* sweep still ends normally with every batch written, and the failed
\* configuration has exactly one row, labelled collision_free = False.
C2_FailureIsContained ==
    (gen.fault.kind = "ExceptionInStep" /\ gen.pc \in {"done", "raised"}) =>
        /\ gen.pc = "done"
        /\ DOMAIN gen.files = 1..gen.total_batches
        /\ Cardinality(BatchRows) = Pow5(gen.samples_per_dimension)
        /\ Cardinality({x \in BatchRows :
              ParamFields(gen.files[x[1]].rows[x[2]]) = gen.fault.params}) = 1
        /\ \A x \in BatchRows :
              ParamFields(gen.files[x[1]].rows[x[2]]) = gen.fault.params =>
                  gen.files[x[1]].rows[x[2]][6] = FALSE

(***************************************************************************)
(* Claims about single_agent_simulation, checked under SpecRun.            *)
(***************************************************************************)

OkCalls == {k \in DOMAIN calls : calls[k].kind = "ok"}

CollisionRaised ==
    \/ setup = "CollisionError"
    \/ \E k \in DOMAIN calls : calls[k].kind = "CollisionError"

Finished == sim.pc \in {"returned", "raised"}

\* C3: once a CollisionError has been raised, in set-up or in a control
\* step, the call has returned a 9-field row whose collision_free is False;
\* no exception leaves the function.
C3_CollisionNeverEscapes ==
    CollisionRaised =>
        /\ sim.pc = "returned"
        /\ Len(sim.result) = 9
        /\ sim.result[6] = FALSE

\* C4: safety_loss is 0 when the loop is entered; a completed control step
\* makes it the maximum of its old value and the controller's per-step loss;
\* it is never negative and no step of the run lowers it; the returned row
\* carries it.
C4_SafetyLossRunningMax ==
    [][ /\ (sim.pc = "setup" /\ sim'.pc = "loop" => sim'.safety_loss = 0)
        /\ (sim'.bound => sim'.safety_loss >= 0)
        /\ (sim.bound => sim'.safety_loss >= sim.safety_loss)
        /\ (Len(calls') > Len(calls) /\ calls'[Len(calls')].kind = "ok" =>
               sim'.safety_loss =
                   Max(sim.safety_loss, calls'[Len(calls')].safety_loss[1]))
        /\ (sim'.pc = "returned" =>
               sim'.result[7] = sim'.safety_loss /\ sim'.result[7] >= 0)
      ]_vars

\* C4 witness: a step with a smaller loss followed one with a larger loss
\* and the larger one was kept.
C4_Witness ==
    /\ Len(calls) >= 2
    /\ calls[1].kind = "ok" /\ calls[1].safety_loss[1] = 2
    /\ calls[2].kind = "ok" /\ calls[2].safety_loss[1] = 1
    /\ sim.safety_loss = 2

\* C5: once the metrics exist, deadlock_time <= sim_time, sim_time is dt
\* times the number of completed control steps and deadlock_time is dt times
\* a whole number of them; the same holds of the fields of a returned row.
C5_TimesAreStepMultiples ==
    /\ sim.bound =>
          /\ sim.deadlock_time <= sim.sim_time
          /\ sim.sim_time = dt * Cardinality(OkCalls)
          /\ \E k \in 0..Cardinality(OkCalls) : sim.deadlock_time = dt * k
    /\ sim.pc = "returned" =>
          /\ sim.result[8] <= sim.result[9]
          /\ sim.result[9] = dt * Cardinality(OkCalls)
          /\ \E k \in 0..Cardinality(OkCalls) : sim.result[8] = dt * k

\* C5 witness: a returned row after several steps, some of them slow.
C5_Witness ==
    /\ sim.pc = "returned"
    /\ Cardinality(OkCalls) >= 2
    /\ sim.result[8] > 0
    /\ sim.result[8] < sim.result[9]

\* C6: a row with collision_free = False has sim_time < max_sim_time.
C6_CollisionRowIsEarly ==
    (sim.pc = "returned" /\ sim.result[6] = FALSE) =>
        sim.result[9] < sim.max_sim_time

\* C6 witness: the collision came in the last step of the budget.
C6_Witness ==
    /\ sim.pc = "returned" /\ sim.result[6] = FALSE
    /\ StepBudget(sim) >= 2
    /\ Len(calls) = StepBudget(sim)
    /\ sim.result[9] = dt * (StepBudget(sim) - 1)

\* C7: a row with collision_free = True comes from a run whose
\* int(max_sim_time / dt) control steps all returned, none raising
\* CollisionError, and its sim_time is the horizon up to one dt.
C7_CollisionFreeRowIsFullHorizon ==
    (sim.pc = "returned" /\ sim.result[6] = TRUE) =>
        /\ Len(calls) = StepBudget(sim)
        /\ \A k \in DOMAIN calls : calls[k].kind = "ok"
        /\ sim.result[9] = dt * StepBudget(sim)
        /\ sim.result[9] <= sim.max_sim_time
        /\ sim.max_sim_time - dt < sim.result[9]

\* C7 witness: a collision-free row of a horizon that is no multiple of dt.
C7_Witness ==
    /\ sim.pc = "returned" /\ sim.result[6] = TRUE
    /\ StepBudget(sim) >= 2
    /\ sim.max_sim_time % dt # 0

(***************************************************************************)
(* Claims about BaseRobot, checked under SpecRobot.                        *)
(***************************************************************************)
FovTriangle(X) ==
    TriangleCells(<<1000 * X[1], 1000 * X[2]>>,
                  calculate_fov_points(X)[1], calculate_fov_points(X)[2])

\* C8: no call removes a point from the sensing footprint; the footprint
\* changes only in update_sensing_footprints, and then to its union with
\* the field-of-view triangle of the current state.
C8_FootprintNeverShrinks ==
    [][ /\ robot.sensing_footprints \subseteq robot'.sensing_footprints
        /\ robot'.sensing_footprints # robot.sensing_footprints =>
              /\ trace'.last.op = "update_sensing_footprints"
              /\ robot'.sensing_footprints =
                     robot.sensing_footprints \cup FovTriangle(robot.X)
      ]_vars

\* C8 witness: the footprint has grown a second time, from another position.
C8_Witness ==
    /\ trace.last.op = "update_sensing_footprints"
    /\ trace.last.footprints # robot.sensing_footprints
    /\ trace.last.footprints #
           Buffer({<<0, 1>>}, init_radius)
    /\ Buffer({<<0, 1>>}, init_radius) \subseteq robot.sensing_footprints
    /\ robot.X[1] # 0

\* The last call and the remembered one are two invocations of
\* detect_unknown_obs with the same robot state and the same obstacles.
SameQuery ==
    /\ trace.last.op = "detect_unknown_obs"
    /\ trace.memo.op = "detect_unknown_obs"
    /\ trace.memo_at < trace.n
    /\ trace.last.arg.some
    /\ trace.last.arg = trace.memo.arg
    /\ trace.last.X = trace.memo.X

SameAnswer ==
    /\ trace.last.ret = trace.memo.ret
    /\ trace.last.exc = trace.memo.exc

\* C9 as claimed: two invocations with the same robot state and the same
\* obstacles return the same estimate, whatever was executed before them.
C9_SameStateSameEstimate == SameQuery => SameAnswer

\* C9 as amended: two invocations with the same robot state, the same
\* obstacles and the same sensing footprint return the same estimate,
\* whatever was executed before them.
C9_SameStateAndFootprintSameEstimate ==
    (SameQuery /\ trace.last.footprints = trace.memo.footprints) => SameAnswer

\* C9 witness: an estimate returned a second time, another call in between.
C9_Witness ==
    /\ SameQuery
    /\ trace.last.footprints = trace.memo.footprints
    /\ trace.last.ret.val # <<>>
    /\ trace.memo_at + 1 < trace.n

\* C10: after a call of detect_unknown_obs that returned, detected_points
\* holds the points this call found (none for the argument None) and
\* detected_obs the estimate built from them, or None when there are none.
C10_DetectionOverwritten ==
    (trace.last.op = "detect_unknown_obs" /\ trace.last.exc = "none") =>
        LET call  == trace.last
            found == IF call.arg.some
                     THEN ScanObstacles(call.footprints, call.X,
                              SortedByDistance(call.arg.val, call.X))
                     ELSE <<>>
        IN  /\ robot.detected_points = found
            /\ robot.detected_obs =
                   IF found = <<>> THEN None
                   ELSE Some(Estimate(call.X, found))

\* C11: the control command is not kept from one step to the next: no call
\* reads the control an earlier call of step applied, so the safety area
\* update_safety_area computes is the one it computes for the same state
\* with no control applied yet.
C11_ControlNotKept ==
    trace.last.op = "update_safety_area" =>
        robot.safety_area =
            update_safety_area(
                [robot EXCEPT !.X = trace.last.X,
                              !.U = RobotNew(trace.last.X,
                                             robot.data_generation).U]
            ).robot.safety_area

(***************************************************************************)
(* Further claims about single_agent_simulation, under SpecRun.            *)
(***************************************************************************)

\* C12: a run whose set-up succeeded executes control steps one after
\* another until a step raises CollisionError or int(max_sim_time / dt)
\* steps have completed, and then returns: no control step follows a step
\* that did not complete, and a run that has ended has returned a row,
\* after a collision or after the whole step budget, and after nothing else.
C12_RunEndsByCollisionOrBudget ==
    /\ \A k \in DOMAIN calls : k < Len(calls) => calls[k].kind = "ok"
    /\ Len(calls) <= StepBudget(sim)
    /\ (setup = "ok" /\ Finished) =>
          /\ sim.pc = "returned"
          /\ \/ /\ calls # <<>>
                /\ calls[Len(calls)].kind = "CollisionError"
                /\ sim.result[6] = FALSE
             \/ /\ Len(calls) = StepBudget(sim)
                /\ \A k \in DOMAIN calls : calls[k].kind = "ok"
                /\ sim.result[6] = TRUE

\* The completed control steps of cs after which |X[3]| was below th.
SlowCalls(cs, th) ==
    {k \in DOMAIN cs : cs[k].kind = "ok" /\ Abs(cs[k].speed) < th}

\* C13: deadlock_time is dt times the number of completed control steps
\* after which the absolute forward speed was strictly below
\* deadlock_threshold, and so is the field of a returned row; a step whose
\* speed is at or above the threshold leaves it unchanged, and no step of
\* the run resets or lowers it.
C13_DeadlockTimeCountsSlowSteps ==
    [][ /\ (sim'.bound =>
               sim'.deadlock_time =
                   dt * Cardinality(SlowCalls(calls', sim'.deadlock_threshold)))
        /\ (sim.bound => sim'.deadlock_time >= sim.deadlock_time)
        /\ (/\ Len(calls') > Len(calls)
            /\ calls'[Len(calls')].kind = "ok"
            /\ Abs(calls'[Len(calls')].speed) >= sim.deadlock_threshold
            => sim'.deadlock_time = sim.deadlock_time)
        /\ (sim'.pc = "returned" =>
               sim'.result[8] =
                   dt * Cardinality(SlowCalls(calls', sim'.deadlock_threshold)))
      ]_vars

\* C13 witness: a returned row of a run with a step below the threshold, a
\* step exactly at it and a fast step backwards.
C13_Witness ==
    /\ sim.pc = "returned"
    /\ \E i, j, k \in DOMAIN calls :
          /\ calls[i].kind = "ok" /\ calls[i].speed = sim.deadlock_threshold
          /\ calls[j].kind = "ok" /\ calls[j].speed < 0
                                  /\ Abs(calls[j].speed) < sim.deadlock_threshold
          /\ calls[k].kind = "ok" /\ calls[k].speed < 0
                                  /\ Abs(calls[k].speed) > sim.deadlock_threshold
    /\ sim.result[8] = dt

(***************************************************************************)
(* Further claims about generate_data, under SpecGen.                      *)
(***************************************************************************)

OpenPools == {k \in DOMAIN gen.pools : gen.pools[k] = "open"}

\* C14: generate_data makes one pool per batch and closes and joins it
\* after all results of the batch are collected, before the batch's CSV is
\* written and before the next pool is made: at most one pool is open at any
\* time, the pool of a batch is open while its results are collected and
\* joined when its CSV is written, and once generate_data has ended, by
\* returning or by raising, every pool it made has been joined.
C14_OnePoolPerBatchJoined ==
    /\ Cardinality(OpenPools) <= 1
    /\ gen.pc = "imap" =>
          /\ Len(gen.pools) = gen.batch_index + 1
          /\ OpenPools = {Len(gen.pools)}
    /\ gen.pc = "to_csv" =>
          /\ Len(gen.pools) = gen.batch_index + 1
          /\ OpenPools = {}
          /\ Len(gen.results) = Len(gen.batch_parameters)
    /\ gen.pc = "for" =>
          /\ Len(gen.pools) = gen.batch_index
          /\ DOMAIN gen.files = 1..gen.batch_index
          /\ OpenPools = {}
    /\ gen.pc \in {"done", "raised"} => OpenPools = {}

(***************************************************************************)
(* Further claims about BaseRobot, under SpecRobot.                        *)
(***************************************************************************)

\* C15: when update_safety_area runs with a non-zero angular rate omega,
\* the angular rate used for the point of the braking path at braking time
\* t has the magnitude |omega| - max_ang_decel * t while that is positive
\* and is 0 from then on, and never has the sign opposite to omega; the loop
\* uses one rate for each point it adds.
C15_AngularRateDecaysToZero ==
    (trace.last.op = "update_safety_area" /\ robot.U[2] # 0) =>
        LET omega == robot.U[2]
            path  == BrakingPath(trace.last.X, omega)
        IN  /\ Len(path.omegas) = Len(path.points) - 1
            /\ Len(path.omegas) = Max(trace.last.X[4], 0)
            /\ \A k \in DOMAIN path.omegas :
                  LET t == (k - 1) * tick
                  IN  /\ Abs(path.omegas[k]) =
                             Max(Abs(omega) - max_ang_decel * t, 0)
                      /\ path.omegas[k] * omega >= 0
                      /\ Abs(path.omegas[k]) <= Abs(omega)

\* C15 witness: a safety area of a braking path long enough for the decayed
\* rate to reach zero and for the next one to be clamped.
C15_Witness ==
    /\ trace.last.op = "update_safety_area"
    /\ robot.U[2] < 0
    /\ robot.safety_area # {}
    /\ \E k \in DOMAIN BrakingPath(trace.last.X, robot.U[2]).omegas :
          Abs(robot.U[2]) - max_ang_decel * (k - 1) * tick < 0

\* C16: a call of is_beyond_sensing_footprints that returns, returns true
\* exactly when some point of the safety area lies outside the sensing
\* footprint; the unsafe-point log grows by the current position when the
\* result is true and is unchanged when it is false; the state, the
\* footprint and the safety area are unchanged.
C16_BeyondIffNotContained ==
    [][ (trace'.last.op = "is_beyond_sensing_footprints"
            /\ trace'.last.exc = "none") =>
            LET beyond == ~(robot.safety_area \subseteq robot.sensing_footprints)
            IN  /\ trace'.last.ret = Some(beyond)
                /\ robot'.unsafe_points =
                       IF beyond
                       THEN Append(robot.unsafe_points, <<robot.X[1], robot.X[2]>>)
                       ELSE robot.unsafe_points
                /\ robot'.X = robot.X
                /\ robot'.sensing_footprints = robot.sensing_footprints
                /\ robot'.safety_area = robot.safety_area
      ]_vars

\* The front-facing points obstacle i of the last call's list yields.
PointsOf(i) ==
    FrontPoints(trace.last.footprints, trace.last.X, trace.last.arg.val[i])

\* Obstacle i of the last call's list is examined before obstacle j: its
\* centre is nearer to the robot, or as near and it is earlier in the list.
ExaminedBefore(i, j) ==
    LET pos == <<trace.last.X[1], trace.last.X[2]>>
        di  == Dist2(<<trace.last.arg.val[i][1], trace.last.arg.val[i][2]>>, pos)
        dj  == Dist2(<<trace.last.arg.val[j][1], trace.last.arg.val[j][2]>>, pos)
    IN  di < dj \/ (di = dj /\ i < j)

Yielding == {i \in DOMAIN trace.last.arg.val : PointsOf(i) # <<>>}

\* C17: after a call of detect_unknown_obs with a list of obstacles,
\* detected_points holds exactly the front-facing points of the obstacle
\* examined first, in order of increasing distance of the centre from the
\* robot, among those that yield any, and the estimate is built from these
\* points alone; no point of another obstacle is among them.  When no
\* obstacle yields a point there is no estimate.
C17_NearestYieldingObstacleOnly ==
    (/\ trace.last.op = "detect_unknown_obs"
     /\ trace.last.exc = "none"
     /\ trace.last.arg.some) =>
        IF Yielding = {}
        THEN /\ robot.detected_points = <<>>
             /\ robot.detected_obs = None
             /\ trace.last.ret = Some(<<>>)
        ELSE \E i \in Yielding :
                /\ \A j \in Yielding \ {i} : ExaminedBefore(i, j)
                /\ robot.detected_points = PointsOf(i)
                /\ \A k \in DOMAIN robot.detected_points :
                      robot.detected_points[k] \in ObsCircle(trace.last.arg.val[i])
                /\ robot.detected_obs = Some(Estimate(trace.last.X, PointsOf(i)))
                /\ trace.last.ret = robot.detected_obs

\* C17 witness: two obstacles that both yield points, the nearer one the
\* later in the list.
C17_Witness ==
    /\ trace.last.op = "detect_unknown_obs"
    /\ trace.last.exc = "none"
    /\ trace.last.arg.some
    /\ Yielding = {1, 2}
    /\ ExaminedBefore(2, 1)
    /\ robot.detected_points = PointsOf(2)
    /\ PointsOf(1) # PointsOf(2)

====
